---- MODULE Spec2Model ----
(***************************************************************************)
(* Model of the detect / dedupe / rate-limit / reply loop of smart_bot.py. *)
(*                                                                         *)
(* The clock `now` is time.time() in whole seconds.  It advances in the    *)
(* scan-interval sleep and in the blocking oracle call; the sub-second     *)
(* pauses of the UI calls are below the clock's resolution.                *)
(***************************************************************************)
EXTENDS Integers, Sequences, FiniteSets, TLC

\* ---------------------------------------------------------------- settings
REPLY_COOLDOWN == 300
SCAN_INTERVAL == 20
MAX_REPLIES_PER_HOUR == 10
RATE_WINDOW == 3600
RETENTION == 86400

\* time.time() when the module is loaded
StartTime == 1700000000

\* ------------------------------------------------------------------ bounds
\* the run is followed for Horizon seconds after start
Horizon == 3840
\* duration of a slow (stalled) oracle call, in seconds
OracleStall == 3400
\* number of distinct window contents
NumFrames == 2
\* longest oracle response, in tokens
MaxTextLen == 3
\* seconds of the run followed for the progress of the loop
LiveWindow == 100

MaxTime == StartTime + Horizon
Frames == 1..NumFrames
OracleDelays == {0, OracleStall}

VARIABLES
    pc,               \* position of the loop
    now,              \* time.time()
    message_history,  \* DedupeLedger: fingerprint -> time of the last reply
    count,            \* reply_counter["count"]
    reset_time,       \* reply_counter["reset_time"]
    chat_img,         \* frame captured in this iteration (0: none)
    img_hash,         \* fingerprint computed in this iteration
    response,         \* what the oracle call returned
    result,           \* decision returned by analyze_message_and_generate_reply
    marker,           \* last status line printed
    oracle_calls,     \* oracle invocations in this iteration
    inject_calls,     \* send_reply invocations in this iteration
    last_sent,        \* history: the successful send of this or the previous iteration
    ui,               \* history: the desktop during send_reply, and the UI calls it issued
    windows,          \* history: sends and start of the current and the previous rate window
    stopped_at        \* history: the position at which the interrupt ended the loop

vars == <<pc, now, message_history, count, reset_time, chat_img, img_hash,
          response, result, marker, oracle_calls, inject_calls, last_sent, ui,
          windows, stopped_at>>

\* ------------------------------------------------------------- fingerprint
\* md5 of the pixel bytes: a digest, distinct for the distinct frames
generate_image_hash(img) == <<"md5", img>>

NoHash == <<"md5", 0>>
Hashes == {generate_image_hash(f) : f \in Frames}

\* ------------------------------------------------------------------ ledger
EmptyLedger == [h \in {} |-> 0]

\* message_history.get(h, 0)
HistoryGet(mh, h) == IF h \in DOMAIN mh THEN mh[h] ELSE 0

\* message_history[h] = t
HistoryPut(mh, h, t) == [k \in (DOMAIN mh) \cup {h} |-> IF k = h THEN t ELSE mh[k]]

\* the cleanup without its clear()
HistoryClear_noop(mh) == mh
\* message_history.clear()
HistoryClear(mh) == EmptyLedger

\* for h, t in list(items): if current_time - t > 86400: del message_history[h]
HistoryPrune(mh, t) == [k \in {h \in DOMAIN mh : ~(t - mh[h] > RETENTION)} |-> mh[k]]

\* lines 292-300: record, then the cleanup
HistoryAfterSend(mh, h, t) == HistoryPrune(HistoryClear(HistoryPut(mh, h, t)), t)

\* -------------------------------------------------------------------- gate
\* the cooldown compared with <= : it lasts one second too long
CooldownActive_inclusive(t, last) == t - last <= REPLY_COOLDOWN
\* time.time() - last_reply_time < REPLY_COOLDOWN
CooldownActive(t, last) == t - last < REPLY_COOLDOWN

\* the window compared with >= : it ends one second early
WindowExpired_early(t, rt) == t - rt >= RATE_WINDOW
\* current_time - reply_counter["reset_time"] > 3600
WindowExpired(t, rt) == t - rt > RATE_WINDOW

\* the cap compared with > : one reply too many gets through
RateLimited_strict(c) == c > MAX_REPLIES_PER_HOUR
\* reply_counter["count"] >= MAX_REPLIES_PER_HOUR
RateLimited(c) == c >= MAX_REPLIES_PER_HOUR

\* the window start left where it was on expiry
RateReset_stale(t, rt) == rt
\* check_rate_limit(): the counter and window start it leaves, and its result
RateCount(t, c, rt) == IF WindowExpired(t, rt) THEN 0 ELSE c
RateReset(t, rt) == IF WindowExpired(t, rt) THEN t ELSE rt
check_rate_limit(t, c, rt) == ~RateLimited(RateCount(t, c, rt))

\* the rate windows as an observer sees them: a window starts when the
\* module is loaded and whenever lines 228-229 run; sends are counted at line 293
FirstWindow(t) == [sends |-> 0, start |-> t, has_prev |-> FALSE, prev_sends |-> 0, prev_start |-> t]
WindowsAfterCheck(w, t, rt) ==
    IF WindowExpired(t, rt)
    THEN [sends |-> 0, start |-> t, has_prev |-> TRUE, prev_sends |-> w.sends, prev_start |-> w.start]
    ELSE w
WindowsAfterSend(w) == [w EXCEPT !.sends = @ + 1]

\* ------------------------------------------------------------------ oracle
\* the markers of a fenced code block: three backticks, and three backticks + json
Fence == "fence"
FenceJson == "fence_json"
JsonTokens == {"ObjReply", "ObjNoReply", "ObjEmptyReply", "ObjNoDetected", "Arr"}
Tokens == {Fence, FenceJson, "prose", " "} \cup JsonTokens

\* the dict a JSON object token decodes to, as main() reads it:
\* get("should_reply"), get("reply"), and whether 'message_detected' is a key
Decision(sr, rp, md) == [should_reply |-> sr, reply |-> rp, has_detected |-> md]
JsonObject(tok) ==
    CASE tok = "ObjReply"      -> Decision(TRUE, "morning!", TRUE)
      [] tok = "ObjNoReply"    -> Decision(FALSE, "", TRUE)
      [] tok = "ObjEmptyReply" -> Decision(TRUE, "", TRUE)
      [] tok = "ObjNoDetected" -> Decision(TRUE, "morning!", FALSE)

\* {"should_reply": False, "message_detected": "", "reply": ""}
NoReplyDecision == Decision(FALSE, "", TRUE)
NoResult == Decision(FALSE, "none", FALSE)

Contains(s, tok) == \E i \in 1..Len(s) : s[i] = tok
FirstIndex(s, tok) == CHOOSE i \in 1..Len(s) : s[i] = tok /\ \A j \in 1..(i-1) : s[j] # tok

\* s.split(tok)[0]
SplitHead(s, tok) == IF Contains(s, tok) THEN SubSeq(s, 1, FirstIndex(s, tok) - 1) ELSE s
\* s.split(tok)[1], for s that contains tok
SplitSecond(s, tok) == SplitHead(SubSeq(s, FirstIndex(s, tok) + 1, Len(s)), tok)

\* str.lstrip(), str.rstrip(): whitespace off one end
LStrip(s) ==
    LET inked == {i \in 1..Len(s) : s[i] # " "}
    IN  IF inked = {} THEN <<>>
        ELSE SubSeq(s, CHOOSE i \in inked : \A j \in inked : i <= j, Len(s))
RStrip(s) ==
    LET inked == {i \in 1..Len(s) : s[i] # " "}
    IN  IF inked = {} THEN <<>>
        ELSE SubSeq(s, 1, CHOOSE i \in inked : \A j \in inked : i >= j)
\* str.strip()
Strip(s) == RStrip(LStrip(s))

\* lines 142-148: the text handed to json.loads
ExtractJson(text) ==
    LET r == Strip(text)
    IN  IF Contains(r, FenceJson) THEN Strip(SplitHead(SplitSecond(r, FenceJson), Fence))
        ELSE IF Contains(r, Fence) THEN Strip(SplitHead(SplitSecond(r, Fence), Fence))
        ELSE r

\* json.loads accepts exactly one JSON value
JsonValid(s) == Len(Strip(s)) = 1 /\ Strip(s)[1] \in JsonTokens

\* a parser that picks the first JSON object out of any surrounding text
ParseDecision_lenient(s) ==
    IF \E i \in 1..Len(s) : s[i] \in JsonTokens \ {"Arr"}
    THEN JsonObject(s[CHOOSE i \in 1..Len(s) : s[i] \in JsonTokens \ {"Arr"}])
    ELSE NoReplyDecision
\* lines 150-163: the parsed dict; a decode error, or .get on a value that is
\* no dict, ends in one of the two except branches
ParseDecision(s) ==
    IF JsonValid(s) /\ Strip(s)[1] # "Arr" THEN JsonObject(Strip(s)[1]) ELSE NoReplyDecision

\* what generate_content did: a response text, or an exception
OracleOk(text) == [ok |-> TRUE, text |-> text]
OracleError == [ok |-> FALSE, text |-> <<>>]
NoResponse == [ok |-> FALSE, text |-> <<"none">>]
\* a transport error answered with a canned reply
analyze_canned(o) ==
    IF o.ok THEN ParseDecision(ExtractJson(o.text)) ELSE Decision(TRUE, "sorry", TRUE)
\* lines 103-163
analyze(o) == IF o.ok THEN ParseDecision(ExtractJson(o.text)) ELSE NoReplyDecision

\* the responses the oracle gives in the loop
LoopResponses ==
    { OracleError,
      OracleOk(<<"ObjReply">>), OracleOk(<<"ObjNoReply">>), OracleOk(<<"ObjEmptyReply">>),
      OracleOk(<<"ObjNoDetected">>), OracleOk(<<"prose">>), OracleOk(<<"Arr">>),
      OracleOk(<<FenceJson, "ObjReply", Fence>>), OracleOk(<<FenceJson, "ObjReply">>) }

\* ---------------------------------------------------------------- injector
\* what the desktop does during send_reply: all calls succeed, no window has
\* the title, or one of the five calls raises
InjectOutcomes ==
    {"ok", "no_window", "lookup_error", "click_error", "input_click_error",
     "type_error", "enter_error"}

\* the text typed before the input control is clicked
UiOrder_typing_first == <<"lookup", "type", "click_chat", "click_input", "enter">>
\* lines 169, 180, 188, 208, 212: the UI calls of a delivery, in program order
UiOrder == <<"lookup", "click_chat", "click_input", "type", "enter">>

\* number of UI calls issued, the one that fails included
UiCalls(o) ==
    CASE o \in {"no_window", "lookup_error"} -> 1
      [] o = "click_error" -> 2
      [] o = "input_click_error" -> 3
      [] o = "type_error" -> 4
      [] OTHER -> 5
UiTrace(o) == SubSeq(UiOrder, 1, UiCalls(o))
NoUi == [env |-> "idle", trace |-> << >>]

\* click_on_chat_area_and_input()
click_on_chat_area_and_input(o) ==
    o \notin {"no_window", "lookup_error", "click_error", "input_click_error"}
\* send_reply(message)
send_reply(o) == click_on_chat_area_and_input(o) /\ o \notin {"type_error", "enter_error"}

\* ------------------------------------------------------------ window, frame
WindowOutcomes == {"ok", "not_found", "error"}
\* focus_whatsapp()
focus_whatsapp(o) == o = "ok"
\* get_chat_image(): the frame, or None
get_chat_image(o, f) == IF o = "ok" THEN f ELSE 0

\* ------------------------------------------------------------- main(): loop
\* line 286: result.get("should_reply") and result.get("reply")
WantsReply(d) == d.should_reply /\ d.reply # ""

\* a failed send that starts the next iteration without the sleep of line 304
AfterSend_nosleep(ok) == IF ok THEN "bookkeeping" ELSE "locating"
\* the result of send_reply ignored
AfterSend_always(ok) == "bookkeeping"
\* line 290: bookkeeping only when send_reply returned True
AfterSend(ok) == IF ok THEN "bookkeeping" ELSE "sleeping"

\* the continue of line 260 left out
AfterLocate_fallthrough(found) == "capturing"
\* lines 257-260: the frame is captured only when the window was found
AfterLocate(found) == IF found THEN "capturing" ELSE "sleeping"

\* lines 263-266: the fingerprint is taken only of a captured frame
AfterCapture(img) == IF img # 0 THEN "fingerprinting" ELSE "sleeping"

\* the continue of line 281 left out
AfterRateCheck_fallthrough(allowed) == "querying"
\* lines 279-281: the oracle is asked only when check_rate_limit() allows
AfterRateCheck(allowed) == IF allowed THEN "querying" ELSE "sleeping"

\* an exception that ends the loop
AfterException_fatal == "stopped"
\* lines 309-311: what follows a caught exception
AfterException == "handler"

NoSend == [valid |-> FALSE, hash |-> NoHash, time |-> 0]
\* the history variable keeps a send through the iteration that follows it
Remember(ls, t) == IF ls.valid /\ ls.time = t THEN ls ELSE NoSend

\* lines 46-47 and the entry of main(), the module being loaded at time t
InitAt(t) ==
    /\ pc = "locating"
    /\ now = t
    /\ message_history = EmptyLedger
    /\ count = 0
    /\ reset_time = t
    /\ chat_img = 0
    /\ img_hash = NoHash
    /\ response = NoResponse
    /\ result = NoResult
    /\ marker = "checking"
    /\ oracle_calls = 0
    /\ inject_calls = 0
    /\ last_sent = NoSend
    /\ ui = NoUi
    /\ windows = FirstWindow(t)
    /\ stopped_at = "none"

Init == InitAt(StartTime)

\* lines 254-260
Locating ==
    /\ pc = "locating"
    /\ \E o \in WindowOutcomes :
          /\ pc' = AfterLocate(focus_whatsapp(o))
          /\ marker' = IF focus_whatsapp(o) THEN "checking" ELSE "window_not_found"
    /\ UNCHANGED <<now, message_history, count, reset_time, chat_img, img_hash,
                   response, result, oracle_calls, inject_calls, last_sent, ui, windows,
                   stopped_at>>

\* lines 262-266
Capturing ==
    /\ pc = "capturing"
    /\ \E o \in WindowOutcomes, f \in Frames :
          /\ chat_img' = get_chat_image(o, f)
          /\ pc' = AfterCapture(chat_img')
          /\ marker' = IF chat_img' # 0 THEN marker ELSE "capture_failed"
    /\ UNCHANGED <<now, message_history, count, reset_time, img_hash,
                   response, result, oracle_calls, inject_calls, last_sent, ui, windows,
                   stopped_at>>

\* lines 268-269; img.tobytes() can raise
Fingerprinting ==
    /\ pc = "fingerprinting"
    /\ \/ /\ img_hash' = generate_image_hash(chat_img)
          /\ pc' = "gate_check"
       \/ /\ img_hash' = img_hash
          /\ pc' = AfterException
    /\ UNCHANGED <<now, message_history, count, reset_time, chat_img,
                   response, result, marker, oracle_calls, inject_calls, last_sent, ui, windows,
                   stopped_at>>

\* lines 271-281
GateCheck ==
    /\ pc = "gate_check"
    /\ IF CooldownActive(now, HistoryGet(message_history, img_hash))
       THEN /\ pc' = "sleeping"
            /\ marker' = "cooldown"
            /\ UNCHANGED <<count, reset_time, windows>>
       ELSE /\ count' = RateCount(now, count, reset_time)
            /\ reset_time' = RateReset(now, reset_time)
            /\ windows' = WindowsAfterCheck(windows, now, reset_time)
            /\ pc' = AfterRateCheck(check_rate_limit(now, count, reset_time))
            /\ marker' = IF check_rate_limit(now, count, reset_time)
                         THEN marker ELSE "rate_limited"
    /\ UNCHANGED <<now, message_history, chat_img, img_hash,
                   response, result, oracle_calls, inject_calls, last_sent, ui,
                   stopped_at>>

\* lines 137-140: the blocking generate_content call
Querying ==
    /\ pc = "querying"
    /\ \E o \in LoopResponses, d \in OracleDelays :
          /\ now + d <= MaxTime
          /\ now' = now + d
          /\ response' = o
    /\ oracle_calls' = oracle_calls + 1
    /\ pc' = "parsing"
    /\ UNCHANGED <<message_history, count, reset_time, chat_img, img_hash,
                   result, marker, inject_calls, last_sent, ui, windows,
                   stopped_at>>

\* lines 142-163
Parsing ==
    /\ pc = "parsing"
    /\ result' = analyze(response)
    /\ pc' = "injecting"
    /\ UNCHANGED <<now, message_history, count, reset_time, chat_img, img_hash,
                   response, marker, oracle_calls, inject_calls, last_sent, ui, windows,
                   stopped_at>>

\* lines 286-290 and 301-302; result['message_detected'] raises KeyError
Injecting ==
    /\ pc = "injecting"
    /\ IF WantsReply(result)
       THEN IF ~result.has_detected
            THEN /\ pc' = AfterException
                 /\ UNCHANGED <<marker, inject_calls, ui>>
            ELSE \E o \in InjectOutcomes :
                 /\ inject_calls' = inject_calls + 1
                 /\ ui' = [env |-> o, trace |-> UiTrace(o)]
                 /\ pc' = AfterSend(send_reply(o))
                 /\ marker' = IF send_reply(o) THEN "sent" ELSE "reply_failed"
       ELSE /\ pc' = "sleeping"
            /\ marker' = "no_reply"
            /\ UNCHANGED <<inject_calls, ui>>
    /\ UNCHANGED <<now, message_history, count, reset_time, chat_img, img_hash,
                   response, result, oracle_calls, last_sent, windows, stopped_at>>

\* lines 291-300
Bookkeeping ==
    /\ pc = "bookkeeping"
    /\ message_history' = HistoryAfterSend(message_history, img_hash, now)
    /\ count' = count + 1
    /\ last_sent' = [valid |-> TRUE, hash |-> img_hash, time |-> now]
    /\ windows' = WindowsAfterSend(windows)
    /\ pc' = "sleeping"
    /\ UNCHANGED <<now, reset_time, chat_img, img_hash, response, result,
                   marker, oracle_calls, inject_calls, ui, stopped_at>>

\* time.sleep(SCAN_INTERVAL), then the next iteration
NextIteration ==
    /\ now + SCAN_INTERVAL <= MaxTime
    /\ now' = now + SCAN_INTERVAL
    /\ last_sent' = Remember(last_sent, now)
    /\ pc' = "locating"
    /\ chat_img' = 0
    /\ img_hash' = NoHash
    /\ response' = NoResponse
    /\ result' = NoResult
    /\ oracle_calls' = 0
    /\ inject_calls' = 0
    /\ ui' = NoUi
    /\ UNCHANGED <<message_history, count, reset_time, windows, stopped_at>>

\* lines 259, 265, 275, 280, 304
Sleeping ==
    /\ pc = "sleeping"
    /\ marker' = marker
    /\ NextIteration

\* lines 309-311
Handler ==
    /\ pc = "handler"
    /\ marker' = "error"
    /\ NextIteration

\* main() is left: its locals are gone, the module's globals stay
Return ==
    /\ chat_img' = 0
    /\ img_hash' = NoHash
    /\ response' = NoResponse
    /\ result' = NoResult
    /\ oracle_calls' = 0
    /\ inject_calls' = 0
    /\ stopped_at' = pc
    /\ UNCHANGED <<now, message_history, count, reset_time, last_sent, windows>>

\* KeyboardInterrupt reaches the loop only between two iterations
Interruptible_boundary == {"locating", "sleeping"}
\* lines 306-308: KeyboardInterrupt is no Exception, so the except clauses of
\* lines 65, 93, 157, 193 and 217 let it pass, from whatever statement of the
\* try block of lines 253-304 is running, to the except clause of line 306
Interruptible ==
    {"locating", "capturing", "fingerprinting", "gate_check", "querying", "parsing",
     "injecting", "bookkeeping", "sleeping"}

\* the UI calls that send_reply had issued when the interrupt arrived
InterruptedUi(p, d) ==
    IF p = "injecting" /\ WantsReply(d) /\ d.has_detected
    THEN {[env |-> "interrupted", trace |-> SubSeq(UiOrder, 1, n)] : n \in 0..Len(UiOrder)}
    ELSE {NoUi}

Interrupt ==
    /\ pc \in Interruptible
    /\ pc' = "stopped"
    /\ marker' = "stopped_by_user"
    /\ ui' \in InterruptedUi(pc, result)
    /\ Return

\* KeyboardInterrupt during the sleep of line 311 leaves main() uncaught
InterruptHandler ==
    /\ pc = "handler"
    /\ pc' = "stopped"
    /\ marker' = "traceback"
    /\ ui' = NoUi
    /\ Return

Step ==
    \/ Locating
    \/ Capturing
    \/ Fingerprinting
    \/ GateCheck
    \/ Querying
    \/ Parsing
    \/ Injecting
    \/ Bookkeeping
    \/ Sleeping
    \/ Handler

Next ==
    \/ Step
    \/ Interrupt
    \/ InterruptHandler

Spec == Init /\ [][Next]_vars

\* the loop is the only thread: while it is not interrupted it takes its next
\* step, and every blocking call returns.  The bot is started LiveWindow
\* seconds before the end of the time that is followed.
InitLive == InitAt(MaxTime - LiveWindow)
\* Step as the fairness condition reads it: the parser returns for every
\* response, so at "parsing" the step is the move to "injecting" with a decision
LoopStep ==
    \/ pc # "parsing" /\ Step
    \/ /\ pc = "parsing"
       /\ pc' = "injecting"
       /\ result' \in {NoReplyDecision} \cup {JsonObject(tok) : tok \in JsonTokens \ {"Arr"}}
       /\ UNCHANGED <<now, message_history, count, reset_time, chat_img, img_hash,
                      response, marker, oracle_calls, inject_calls, last_sent, ui, windows,
                   stopped_at>>
LiveSpec == InitLive /\ [][Next]_vars /\ WF_vars(LoopStep)

\* ------------------------------------------------ the gate, taken by itself
\* ages of the ledger entries at the gate check, in seconds
GateAges == {0, 60, REPLY_COOLDOWN - 1, REPLY_COOLDOWN, REPLY_COOLDOWN + 1}
\* iteration starts inside the first rate window, at its last second, and after it
GateTimes == {StartTime + 400, StartTime + RATE_WINDOW, StartTime + RATE_WINDOW + 1}
Ledgers(t) == UNION {[S -> {t - a : a \in GateAges}] : S \in SUBSET Hashes}

\* an iteration starts with the ledger and the counter in any state
InitGate ==
    /\ pc = "locating"
    /\ now \in GateTimes
    /\ message_history \in Ledgers(now)
    /\ count \in {0, MAX_REPLIES_PER_HOUR}
    /\ reset_time = StartTime
    /\ chat_img = 0
    /\ img_hash = NoHash
    /\ response = NoResponse
    /\ result = NoResult
    /\ marker = "checking"
    /\ oracle_calls = 0
    /\ inject_calls = 0
    /\ last_sent = NoSend
    /\ ui = NoUi
    /\ windows = FirstWindow(StartTime)
    /\ stopped_at = "none"

NextGate ==
    \/ Locating
    \/ Capturing
    \/ Fingerprinting
    \/ GateCheck

SpecGate == InitGate /\ [][NextGate]_vars

\* ---------------------------------------- the response parser, taken by itself
Texts == UNION {[1..n -> Tokens] : n \in 0..MaxTextLen}

InitParse ==
    /\ pc = "parsing"
    /\ now = StartTime
    /\ message_history = EmptyLedger
    /\ count = 0
    /\ reset_time = StartTime
    /\ chat_img = 1
    /\ img_hash = generate_image_hash(chat_img)
    /\ response \in {OracleError} \cup {OracleOk(t) : t \in Texts}
    /\ result = NoResult
    /\ marker = "checking"
    /\ oracle_calls = 1
    /\ inject_calls = 0
    /\ last_sent = NoSend
    /\ ui = NoUi
    /\ windows = FirstWindow(StartTime)
    /\ stopped_at = "none"

NextParse == Parsing

SpecParse == InitParse /\ [][NextParse]_vars

\* ================================================================== claims

\* C1: a frame whose fingerprint was replied to less than REPLY_COOLDOWN
\* seconds ago, captured again in a later iteration, is stopped at the gate:
\* the iteration gets no further than the gate and its sleep, and the oracle
\* is not invoked.
C1_CooldownBetweenSends ==
    (/\ last_sent.valid
     /\ img_hash = last_sent.hash
     /\ last_sent.time < now
     /\ now - last_sent.time < REPLY_COOLDOWN)
    => (pc \in {"gate_check", "sleeping"} /\ oracle_calls = 0)

\* C2: reply_counter["count"] stays between 0 and MAX_REPLIES_PER_HOUR.
C2_CountWithinCap == count \in 0..MAX_REPLIES_PER_HOUR

\* the tenth reply of a window has just been sent
C2_Witness == pc = "sleeping" /\ marker = "sent" /\ count = MAX_REPLIES_PER_HOUR

\* C3: with the counter at the cap and the window not over, a gate check
\* ends in the rate-limit suppression whatever the fingerprint; with the
\* window over, the gate check sets the counter to 0, starts a new window
\* and lets the iteration go on to the oracle.
C3_RateCap ==
    [][(pc = "gate_check" /\ pc' # "stopped") =>
         /\ (count = MAX_REPLIES_PER_HOUR /\ now - reset_time <= RATE_WINDOW)
               => (pc' = "sleeping" /\ marker' = "rate_limited" /\ count' = count)
         /\ (now - reset_time > RATE_WINDOW)
               => (count' = 0 /\ reset_time' = now /\ pc' = "querying")]_vars

\* the window was renewed, ten more replies were sent, and the next frame is
\* suppressed by the rate limit
C3_Witness ==
    /\ reset_time > StartTime
    /\ pc = "sleeping"
    /\ marker = "rate_limited"
    /\ count = MAX_REPLIES_PER_HOUR

\* C4: when send_reply returns False the iteration goes to its sleep with
\* the ledger, the counter and the window start as they were, and the frame
\* is not under cooldown.
C4_FailedSendLeavesNoTrace ==
    [][(pc = "injecting" /\ marker' = "reply_failed") =>
         /\ pc' = "sleeping"
         /\ UNCHANGED <<message_history, count, reset_time>>
         /\ ~CooldownActive(now', HistoryGet(message_history', img_hash'))]_vars

\* a send has failed after an earlier reply was counted
C4_Witness == pc = "sleeping" /\ marker = "reply_failed" /\ inject_calls = 1 /\ count > 0

\* C5: bookkeeping after a successful send leaves the ledger with the entry
\* fingerprint -> time of the send, and the counter one higher.
C5_BookkeepingRecords ==
    [][(pc = "bookkeeping" /\ pc' = "sleeping") =>
         /\ img_hash \in DOMAIN message_history'
         /\ message_history'[img_hash] = now
         /\ count' = count + 1]_vars

\* C6: at the gate, a fingerprint whose ledger entry is less than
\* REPLY_COOLDOWN seconds old is suppressed as a duplicate; one whose entry is
\* REPLY_COOLDOWN seconds old or older, and one with no entry, is not
\* suppressed by the cooldown.
C6_CooldownBoundary ==
    [][pc = "gate_check" =>
         /\ (img_hash \in DOMAIN message_history
               /\ now - message_history[img_hash] < REPLY_COOLDOWN)
               => (pc' = "sleeping" /\ marker' = "cooldown")
         /\ (img_hash \in DOMAIN message_history
               /\ now - message_history[img_hash] >= REPLY_COOLDOWN)
               => marker' # "cooldown"
         /\ (img_hash \notin DOMAIN message_history) => marker' # "cooldown"]_vars

\* an entry exactly REPLY_COOLDOWN seconds old has passed the gate
C6_Witness ==
    /\ pc = "querying"
    /\ img_hash \in DOMAIN message_history
    /\ now - message_history[img_hash] = REPLY_COOLDOWN

\* C7: with the counter at or over the cap inside the window, the gate check
\* sends the iteration to its sleep: no oracle call, no send_reply call, and
\* the ledger as it was.
C7_RateLimitSkipsOracle ==
    [][(/\ pc = "gate_check"
        /\ count >= MAX_REPLIES_PER_HOUR
        /\ now - reset_time <= RATE_WINDOW
        /\ pc' # "stopped") =>
         /\ pc' = "sleeping"
         /\ oracle_calls' = 0
         /\ inject_calls' = 0
         /\ UNCHANGED message_history]_vars

\* the frame after the tenth reply differs from the one replied to, has no
\* ledger entry, and is suppressed by the rate limit
C7_Witness ==
    /\ pc = "sleeping"
    /\ marker = "rate_limited"
    /\ last_sent.valid
    /\ last_sent.hash # img_hash
    /\ img_hash \notin DOMAIN message_history
    /\ oracle_calls = 0

NoFence(text) == ~Contains(text, Fence) /\ ~Contains(text, FenceJson)

\* C8 as stated: every response text that is not valid JSON gives a decision
\* with should_reply false, and nothing is raised.
C8_NotJsonMeansNoReply ==
    [][(pc = "parsing" /\ response.ok /\ ~JsonValid(response.text)) =>
         (~result'.should_reply /\ pc' = "injecting")]_vars

\* C8 amended: a failed call, and a response text without fence marker that
\* is not valid JSON, give should_reply false; no response raises; a JSON
\* object after an opening fence that is never closed is returned as decoded.
C8_MalformedMeansNoReply ==
    [][pc = "parsing" =>
         /\ pc' = "injecting"
         /\ ~response.ok => ~result'.should_reply
         /\ (response.ok /\ NoFence(response.text) /\ ~JsonValid(response.text))
               => ~result'.should_reply
         /\ \A tok \in JsonTokens \ {"Arr"} :
               (response.ok /\ response.text \in {<<FenceJson, tok>>, <<Fence, tok>>})
               => result' = JsonObject(tok)]_vars

\* prose in front of a JSON object that asks for a reply: no reply
C8_Witness ==
    /\ pc = "injecting"
    /\ response = OracleOk(<<"prose", " ", "ObjReply">>)
    /\ ~result.should_reply

\* a transport error, or a text without fence that is no single JSON object
OracleFailed(o) ==
    \/ ~o.ok
    \/ NoFence(o.text) /\ ~(Len(o.text) = 1 /\ o.text[1] \in JsonTokens \ {"Arr"})

\* C9: the oracle is invoked at most once per iteration; after a failed
\* invocation send_reply is not called, ledger and counter stay as they are,
\* the iteration sleeps, and the sleep is followed by the next iteration.
C9_OracleFailureIsNoReply ==
    /\ [](oracle_calls <= 1)
    /\ [][(pc = "injecting" /\ OracleFailed(response) /\ pc' # "stopped") =>
            /\ pc' = "sleeping"
            /\ inject_calls' = 0
            /\ UNCHANGED <<message_history, count, reset_time>>]_vars
    /\ [][(pc = "sleeping" /\ pc' # "stopped") =>
            (pc' = "locating" /\ UNCHANGED <<message_history, count, reset_time>>)]_vars

\* an iteration whose oracle call failed is asleep, nothing sent
C9_Witness ==
    /\ pc = "sleeping"
    /\ ~response.ok
    /\ oracle_calls = 1
    /\ inject_calls = 0
    /\ marker = "no_reply"

\* C10: the loop stops only on an interrupt; an exception on the way from
\* LOCATING to BOOKKEEPING is caught, the handler sleeps SCAN_INTERVAL and
\* the loop is back at LOCATING; without interrupt the loop keeps coming back
\* to LOCATING (as long as the run is followed).
C10_OnlyInterruptStops ==
    /\ [](pc = "stopped" => marker \in {"stopped_by_user", "traceback"})
    /\ [][(pc = "injecting" /\ WantsReply(result) /\ ~result.has_detected
             /\ pc' # "stopped") => pc' = "handler"]_vars
    /\ [][(pc = "handler" /\ pc' # "stopped") =>
            (pc' = "locating" /\ now' = now + SCAN_INTERVAL)]_vars
    /\ []<>(pc \in {"locating", "stopped"} \/ now + SCAN_INTERVAL > MaxTime)

\* the iteration after a caught exception has started
C10_Witness == pc = "locating" /\ marker = "error" /\ now > reset_time

\* the ledger with the new entry, before the cleanup of lines 295-300
C11_Recorded == HistoryPut(message_history, img_hash, now)

\* C11: the cleanup of bookkeeping removes only entries older than RETENTION:
\* every entry at most RETENTION seconds old, the one just recorded included,
\* is in the ledger afterwards with the same time.
C11_PruneKeepsRecent ==
    [][(pc = "bookkeeping" /\ pc' = "sleeping") =>
         \A h \in DOMAIN C11_Recorded :
            (now - C11_Recorded[h] <= RETENTION)
            => (h \in DOMAIN message_history' /\ message_history'[h] = C11_Recorded[h])]_vars

\* C12: send_reply is called exactly when the decision has should_reply true
\* and a reply text that is not empty.
C12_InjectIffWanted ==
    [][(pc = "injecting" /\ pc' # "stopped") =>
         (WantsReply(result) <=> inject_calls' = inject_calls + 1)]_vars

\* the iteration found no window, or got no frame
C13_Failed(m) == m \in {"window_not_found", "capture_failed"}

\* C13: when the window is not found, or the capture fails, the iteration
\* goes straight to its sleep: no fingerprint, no gate, no oracle, no
\* injector, ledger and rate state as they were, and after the sleep the next
\* iteration starts at the window lookup.
C13_FailureSkipsToSleep ==
    [][/\ (pc \in {"locating", "capturing"} /\ C13_Failed(marker'))
          => /\ pc' = "sleeping"
             /\ img_hash' = NoHash
             /\ response' = NoResponse
             /\ oracle_calls' = 0 /\ inject_calls' = 0
             /\ UNCHANGED <<message_history, count, reset_time, now>>
       /\ (pc = "sleeping" /\ C13_Failed(marker) /\ pc' # "stopped")
          => /\ pc' = "locating"
             /\ now' = now + SCAN_INTERVAL
             /\ UNCHANGED <<message_history, count, reset_time>>]_vars

C13_Witness ==
    pc = "locating" /\ C13_Failed(marker) /\ marker = "capture_failed" /\ now > StartTime

\* the sends of the last RATE_WINDOW seconds all lie in the current window
\* or the one before it: the window before it started more than RATE_WINDOW
\* seconds before the current one
C14_TwoWindowsCoverAnHour(w, t) ==
    /\ w.start <= t
    /\ w.has_prev => w.start - w.prev_start > RATE_WINDOW

\* C14: the counter is set to zero and the window start to the current time
\* only when the window has expired; so no more than MAX_REPLIES_PER_HOUR
\* sends lie between two consecutive resets, and no more than twice as many
\* in any RATE_WINDOW seconds.
C14_FixedWindowBound ==
    [][/\ (reset_time' # reset_time \/ count' < count)
          => /\ pc = "gate_check"
             /\ now - reset_time > RATE_WINDOW
             /\ count' = 0
             /\ reset_time' = now
             /\ windows'.has_prev /\ windows'.prev_sends = windows.sends
       /\ count' > count => (pc = "bookkeeping" /\ marker = "sent" /\ count' = count + 1)
       /\ windows'.sends <= MAX_REPLIES_PER_HOUR
       /\ windows'.prev_sends <= MAX_REPLIES_PER_HOUR
       /\ C14_TwoWindowsCoverAnHour(windows', now')
       /\ windows'.sends + windows'.prev_sends <= 2 * MAX_REPLIES_PER_HOUR]_vars

\* the cap was reached in two windows that follow one another
C14_Witness ==
    /\ windows.has_prev
    /\ windows.prev_sends = MAX_REPLIES_PER_HOUR
    /\ windows.sends = MAX_REPLIES_PER_HOUR
    /\ now - windows.start < RATE_WINDOW

\* the step in which send_reply is called and returns
C15_Delivery == pc = "injecting" /\ inject_calls' = inject_calls + 1

\* C15, as stated: send_reply returns False only when the window cannot be
\* located, and True in every other case.
C15_TrueUnlessNoWindow ==
    [][C15_Delivery => (marker' = "sent" <=> ui'.env # "no_window")]_vars

\* C15, amended: the UI calls of send_reply are issued in the order window
\* lookup, click on the chat area, click on the input control, text entry,
\* submit keystroke, and stop at the first one that fails; with no window the
\* lookup is the only call (no click, no keystroke) and send_reply returns
\* False; it returns True exactly when all five calls were made and none
\* raised, and False when any of them raised.
C15_FixedOrderBestEffort ==
    [][C15_Delivery =>
         /\ \E n \in 1..5 :
               ui'.trace = SubSeq(<<"lookup", "click_chat", "click_input", "type", "enter">>, 1, n)
         /\ ui'.env = "no_window" => (ui'.trace = <<"lookup">> /\ marker' = "reply_failed")
         /\ marker' = "sent" <=> ui'.env = "ok"
         /\ marker' = "sent" => Len(ui'.trace) = 5
         /\ marker' \in {"sent", "reply_failed"}
         /\ pc' = "bookkeeping" <=> marker' = "sent"]_vars

\* a delivery that found the window and failed while typing
C15_Witness ==
    pc = "sleeping" /\ marker = "reply_failed" /\ ui.env = "type_error" /\ Len(ui.trace) = 4

\* the loop is inside the oracle call (lines 284, 103-163) or the injection
\* call (lines 286-290, 198-219)
C16_MidCall == pc \in {"querying", "parsing", "injecting"}

\* C16, as stated: an interrupt that arrives during an oracle call or an
\* injection call does not abort it; the loop stops only afterwards, between
\* two iterations.
C16_InterruptWaitsForReturn ==
    [][C16_MidCall => pc' # "stopped"]_vars

\* C16, amended: an interrupt that arrives during an oracle call or an
\* injection call takes effect there: the loop stops at once, the call does
\* not return to the loop, and no bookkeeping follows, so the ledger and the
\* rate state stay as they were, also when the injector had already issued
\* its UI calls.
C16_InterruptAbortsCall ==
    [][/\ C16_MidCall => ENABLED Interrupt
       /\ (C16_MidCall /\ pc' = "stopped")
          => /\ stopped_at' = pc
             /\ marker' = "stopped_by_user"
             /\ UNCHANGED <<now, message_history, count, reset_time, windows, last_sent>>]_vars

\* the loop was stopped inside send_reply after the submit keystroke
C16_Witness ==
    /\ pc = "stopped"
    /\ stopped_at = "injecting"
    /\ ui.env = "interrupted" /\ Len(ui.trace) = 5
    /\ count = 0 /\ message_history = EmptyLedger

C18_Cooling ==
    img_hash \in DOMAIN message_history /\ now - message_history[img_hash] < REPLY_COOLDOWN

\* C18: the rate window is over only when more than RATE_WINDOW seconds have
\* passed since its start: a gate check exactly RATE_WINDOW seconds after the
\* start with the counter at the cap resets nothing and is suppressed; and
\* the reset is made only in an iteration that has passed the cooldown gate,
\* never in one that ends at the window lookup, at the capture or in the
\* cooldown suppression.
C18_StrictExpiryBehindCooldown ==
    [][/\ (count' # count \/ reset_time' # reset_time)
          => (pc = "gate_check" /\ ~C18_Cooling /\ now - reset_time > RATE_WINDOW)
       /\ (pc = "gate_check" /\ ~C18_Cooling /\ now - reset_time > RATE_WINDOW)
          => (count' = 0 /\ reset_time' = now)
       /\ (pc = "gate_check" /\ ~C18_Cooling /\ now - reset_time = RATE_WINDOW
             /\ count = MAX_REPLIES_PER_HOUR)
          => /\ pc' = "sleeping" /\ marker' = "rate_limited"
             /\ UNCHANGED <<count, reset_time>>
       /\ (pc = "gate_check" /\ C18_Cooling)
          => (pc' = "sleeping" /\ marker' = "cooldown" /\ UNCHANGED <<count, reset_time>>)
       /\ (pc \in {"locating", "capturing", "fingerprinting"})
          => UNCHANGED <<count, reset_time>>]_vars

\* a full counter exactly RATE_WINDOW seconds after the window start: suppressed
C18_Witness ==
    /\ pc = "sleeping"
    /\ marker = "rate_limited"
    /\ now - reset_time = RATE_WINDOW
    /\ count = MAX_REPLIES_PER_HOUR

\* the positions of an iteration before its sleep
C19_InIteration ==
    {"locating", "capturing", "fingerprinting", "gate_check", "querying", "parsing",
     "injecting", "bookkeeping"}

\* C19: every iteration that is not interrupted ends, whatever its path, in
\* one sleep of SCAN_INTERVAL seconds, after which the next iteration starts
\* at the window lookup; send_reply is called at most once in an iteration;
\* so two successful sends are at least SCAN_INTERVAL seconds apart.
C19_OneSleepPerIteration ==
    [][/\ (pc \in C19_InIteration /\ pc' # "stopped")
          => /\ pc' \in C19_InIteration \cup {"sleeping", "handler"}
             /\ pc' # "locating"
             /\ pc # "querying" => now' = now
             /\ now' >= now
       /\ (pc \in {"sleeping", "handler"} /\ pc' # "stopped")
          => (pc' = "locating" /\ now' = now + SCAN_INTERVAL)
       /\ inject_calls' <= 1
       /\ pc = "sleeping"
          => marker \in {"window_not_found", "capture_failed", "cooldown", "rate_limited",
                         "no_reply", "reply_failed", "sent"}
       /\ (pc = "bookkeeping" /\ pc' = "sleeping" /\ last_sent.valid)
          => (last_sent'.time - last_sent.time >= SCAN_INTERVAL)]_vars

\* a reply is sent in the iteration that follows one that sent a reply
C19_Witness ==
    /\ pc = "bookkeeping"
    /\ inject_calls = 1
    /\ last_sent.valid
    /\ now - last_sent.time = SCAN_INTERVAL
====
